---- MODULE Spec2Model ----
(***************************************************************************)
(* Controller (rplugin/python/lldb_nvim/controller.py): the worker thread  *)
(* that owns the LLDB debugger, the callers that submit commands to it     *)
(* through safe_call / safe_exit, and the LLDB listener the worker waits   *)
(* on.  Caller threads and the worker interleave line by line on the       *)
(* shared objects (dbg, in_queue, out_queue, the listener's event queue);  *)
(* one operation run by the worker is one step, since only the worker      *)
(* touches the engine and the handle cache.                                *)
(***************************************************************************)
EXTENDS Integers, Sequences, FiniteSets, TLC

(* ------------------------------ bounds -------------------------------- *)
\* safe_call / safe_exit invocations in one behaviour.  Targets and
\* processes come from commands, so there are at most as many of each.
MaxCalls == 2
\* Notifications the engine emits in one behaviour.
MaxEmits == 2
\* Stands for the source's 172800 (controller.py:222), scaled down.
Ceiling == 2

\* The caller threads.
Callers == {1, 2}

(* ----------------------------- constants ------------------------------ *)
\* Python's None as a handle and as a return value.
None == 0
\* The SBDebugger object of lldb.SBDebugger.Create().
Debugger == 1
\* The method of the Sentinel envelope, safe_call(None): Python's None again.
Sentinel == "None"
\* Broadcasters: the interrupter (CTRL_VOICE), a target's, a process's.
INT == <<"I", 0>>
TB(t) == <<"T", t>>
PB(p) == <<"P", p>>

\* The operations callers hand to safe_call.  "ok" stands for any operation
\* that returns a value, "bad" for one that raises; the others are the
\* handlers that change the engine's targets and processes.
Methods == {"ok", "bad", "do_target", "do_target_d", "do_process_la"}

VARIABLES
  dbg,        \* self.dbg: Debugger or None
  in_queue,   \* self.in_queue: envelopes [m, sync, n]
  out_queue,  \* self.out_queue: returned values
  events,     \* the listener's event queue: broadcasters, oldest first
  _target,    \* self._target: a target id or None
  _process,   \* self._process: a process id or None
  subs,       \* broadcasters self.listener was added to
  to_count,   \* run's local to_count
  wstate,     \* where the worker is: RUNNING, TERMINATING (after a break),
              \* TERMINATED (run returned), CRASHED (run left by an exception)
  pc,         \* per caller: idle, put, bcast, get, join, exited
  cur,        \* per caller: the envelope of the call in progress
  eng,        \* the engine: [valid, selected, tproc, nextT, nextP]
  \* history, read by the properties only
  nput,       \* envelopes put on in_queue so far
  executed,   \* the envelopes the loop took, in the order taken: [n, out],
              \* out one of "returned", "raised", "sentinel"
  released,   \* calls of dbg.Terminate()
  ret,        \* per caller: the value its last safe_call returned
  last,       \* per caller: how its last safe_call ended
  ncalls,     \* safe_call invocations so far
  nemits,     \* notifications emitted so far
  consec,     \* timeouts since the last event the loop handled
  refreshed,  \* the calls into VimBuffers the loop's latest iteration made
              \* itself (lines 217, 219), not those of the operation it ran
  \* a handler or helper run on its own: what it was called with, and what
  \* it returned or handed on
  arg,
  out

cacheVars == <<_target, _process, subs, eng>>
callerVars == <<pc, cur, ret, last, ncalls>>
vars == <<dbg, in_queue, out_queue, events, _target, _process, subs, to_count,
          wstate, pc, cur, eng, nput, executed, released, ret, last, ncalls,
          nemits, consec, refreshed, arg, out>>

\* What the callers, the engine and the end of run leave alone.
loopVars == <<refreshed, arg, out>>

(* ------------------------- engine and handles -------------------------- *)
\* The worker-side state the handlers read and write, as one record.
Pack == [tgt |-> _target, proc |-> _process, subs |-> subs, eng |-> eng]

Unpack(S) ==
  /\ _target' = S.tgt
  /\ _process' = S.proc
  /\ subs' = S.subs
  /\ eng' = S.eng

\* SBTarget.IsValid / SBProcess.IsValid of a handle.
TargetValid(S, t) == t # None /\ t \in S.eng.valid
ProcessValid(S, p) == p # None /\ \E t \in S.eng.valid : S.eng.tproc[t] = p

get_target_cached(S) == [s |-> S, r |-> S.tgt]

\* get_target: [s |-> the state after, r |-> the value returned].
get_target(S) ==
  IF TargetValid(S, S.tgt)
    THEN [s |-> S, r |-> S.tgt]
    ELSE LET target == S.eng.selected IN
         IF TargetValid(S, target)
           THEN [s |-> [S EXCEPT !.tgt = target,
                                 !.subs = @ \cup {TB(target)}],
                 r |-> target]
           ELSE [s |-> S, r |-> None]

\* get_process.
get_process(S) ==
  IF ProcessValid(S, S.proc)
    THEN [s |-> S, r |-> S.proc]
    ELSE LET g == get_target(S)
             p == IF g.r = None THEN None ELSE g.s.eng.tproc[g.r]
         IN IF g.r # None /\ ProcessValid(g.s, p)
              THEN [s |-> [g.s EXCEPT !.proc = p, !.subs = @ \cup {PB(p)}],
                    r |-> p]
              ELSE [s |-> g.s, r |-> None]

\* update_buffers: get_target, then the call into VimBuffers, which raises
\* when fails is TRUE.  [s, raised].
update_buffers(S, fails) == [s |-> get_target(S).s, raised |-> fails]

\* update_buffers, lines 80-88: the call into VimBuffers that jump2pc and buf
\* select.  buf is "None" for Python's None.
buffers_call(jump2pc, buf) ==
  IF buf = "None"
    THEN [fn |-> "update", buf |-> "", jump2pc |-> jump2pc,
          excl |-> {"breakpoints"}]
    ELSE IF buf = "!all"
      THEN [fn |-> "update", buf |-> "", jump2pc |-> jump2pc, excl |-> {}]
      ELSE [fn |-> "update_buffer", buf |-> buf, jump2pc |-> FALSE,
            excl |-> {}]

(* ------------------------------ handlers ------------------------------- *)
\* What the engine's command interpreter does with the three commands the
\* model follows.  [eng, success].
TargetCreate(E, refuse) ==
  IF refuse
    THEN [eng |-> E, success |-> FALSE]
    ELSE [eng |-> [E EXCEPT !.valid = @ \cup {E.nextT},
                            !.selected = E.nextT,
                            !.nextT = @ + 1],
          success |-> TRUE]

TargetDelete(E) ==
  IF E.selected = None \/ E.selected \notin E.valid
    THEN [eng |-> E, success |-> FALSE]
    ELSE LET rest == E.valid \ {E.selected} IN
         [eng |-> [E EXCEPT !.valid = rest,
                            !.selected = IF rest = {} THEN None
                                         ELSE CHOOSE t \in rest :
                                                \A u \in rest : u <= t,
                            !.tproc[E.selected] = None],
          success |-> TRUE]

\* result is the interpreter's output, or its error text on failure.
ProcessLaunch(E, refuse) ==
  IF E.selected = None \/ E.selected \notin E.valid
    THEN [eng |-> E, success |-> FALSE, result |-> "error: invalid target"]
    ELSE IF refuse
      THEN [eng |-> E, success |-> FALSE, result |-> "error: launch failed"]
      ELSE [eng |-> [E EXCEPT !.tproc[E.selected] = E.nextP,
                              !.nextP = @ + 1],
            success |-> TRUE, result |-> "Process launched"]

\* "target select <t>": t becomes the selected target.
TargetSelect(E, t) ==
  IF t \notin E.valid
    THEN [eng |-> E, success |-> FALSE]
    ELSE [eng |-> [E EXCEPT !.selected = t], success |-> TRUE]

Destroy_kept(E, p) == E

\* SBProcess.Destroy of process p.
Destroy(E, p) ==
  [E EXCEPT !.tproc = [t \in DOMAIN @ |-> IF @[t] = p THEN None ELSE @[t]]]

\* do_target with a create-class argument.  [s, raised, val].
do_target(S, refuse) ==
  LET c == TargetCreate(S.eng, refuse)
  IN [s |-> get_target([S EXCEPT !.eng = c.eng]).s,
      raised |-> FALSE, val |-> None]

\* do_target with a select-class argument.
do_target_s(S, t) ==
  LET c == TargetSelect(S.eng, t)
  IN [s |-> get_target([S EXCEPT !.eng = c.eng]).s,
      raised |-> FALSE, val |-> None]

\* do_target with a delete-class argument ('d...'): on success a full
\* refresh, which may raise before the trailing get_target.
do_target_d(S, fails) ==
  LET c == TargetDelete(S.eng)
      S1 == [S EXCEPT !.eng = c.eng]
  IN IF ~c.success
       THEN [s |-> get_target(S1).s, raised |-> FALSE, val |-> None]
       ELSE LET u == update_buffers(S1, fails) IN
            IF u.raised
              THEN [s |-> u.s, raised |-> TRUE, val |-> None]
              ELSE [s |-> get_target(u.s).s, raised |-> FALSE, val |-> None]

\* do_process with a launch-class argument ('la...').  success is that of
\* the launch command and log the messages handed to vimx.log.
do_process_la(S, refuse) ==
  LET g == get_process(S)
      S1 == IF g.r # None
              THEN [g.s EXCEPT !.eng = Destroy(@, g.r)]
              ELSE g.s
      c == ProcessLaunch(S1.eng, refuse)
      S2 == [S1 EXCEPT !.eng = c.eng]
  IN IF ~c.success
       THEN [s |-> S2, raised |-> FALSE, val |-> None, success |-> FALSE,
             log |-> <<"Error during launch: " \o c.result>>]
       ELSE [s |-> get_process(S2).s, raised |-> FALSE, val |-> None,
             success |-> TRUE, log |-> <<c.result>>]

\* method(*args) for envelope e; x is the outcome of the one call in it that
\* may go either way.  "ok" returns a value of its own, here the number of
\* its envelope.
Call(e, S, x) ==
  CASE e.m = "ok" -> [s |-> S, raised |-> FALSE, val |-> e.n]
    [] e.m = "bad" -> [s |-> S, raised |-> TRUE, val |-> None]
    [] e.m = "do_target" -> do_target(S, x)
    [] e.m = "do_target_d" -> do_target_d(S, x)
    [] e.m = "do_process_la" -> do_process_la(S, x)

(* ------------------------------- callers ------------------------------- *)
\* cur[c] of a caller that is in no call.
NoCall == [m |-> Sentinel, sync |-> FALSE, n |-> 0]

\* safe_call without the check of self.dbg.
DebuggerGone_unchecked == FALSE

\* safe_call, line 37: self.dbg is None.
DebuggerGone == dbg = None

\* safe_call, lines 37-40: a call that passes the check goes on to the put;
\* one that does not returns None.

safe_call_check(c, m, sync) ==
  /\ pc[c] = "idle"
  /\ ncalls < MaxCalls
  /\ ncalls' = ncalls + 1
  /\ IF DebuggerGone
       THEN /\ ret' = [ret EXCEPT ![c] = None]
            /\ last' = [last EXCEPT ![c] = "refused"]
            /\ pc' = [pc EXCEPT ![c] = IF m = Sentinel THEN "join" ELSE "idle"]
            /\ UNCHANGED cur
       ELSE /\ pc' = [pc EXCEPT ![c] = "put"]
            /\ cur' = [cur EXCEPT ![c] = [m |-> m, sync |-> sync, n |-> 0]]
            /\ UNCHANGED <<ret, last>>
  /\ UNCHANGED <<dbg, in_queue, out_queue, events, _target, _process, subs,
                 to_count, wstate, eng, nput, executed, released, nemits,
                 consec>>
  /\ UNCHANGED loopVars

\* safe_call(method, args, sync) entered by caller c.  The synchronous calls
\* are drawn from the operations that return a value of their own or raise.
safe_call(c) ==
  \E m \in Methods, sync \in BOOLEAN :
    /\ sync => m \in {"ok", "bad"}
    /\ safe_call_check(c, m, sync)

\* safe_exit entered by caller c: safe_call(None), then join.
safe_exit(c) == safe_call_check(c, Sentinel, FALSE)

\* line 41: self.in_queue.put((method, args, sync)).
safe_call_put(c) ==
  /\ pc[c] = "put"
  /\ nput' = nput + 1
  /\ in_queue' = Append(in_queue, [cur[c] EXCEPT !.n = nput + 1])
  /\ cur' = [cur EXCEPT ![c].n = nput + 1]
  /\ pc' = [pc EXCEPT ![c] = "bcast"]
  /\ UNCHANGED <<dbg, out_queue, events, _target, _process, subs, to_count,
                 wstate, eng, executed, released, ret, last, ncalls, nemits,
                 consec>>
  /\ UNCHANGED loopVars

\* lines 42-44: the interrupt is broadcast; an asynchronous call returns.
safe_call_broadcast(c) ==
  /\ pc[c] = "bcast"
  /\ events' = Append(events, INT)
  /\ IF cur[c].sync
       THEN /\ pc' = [pc EXCEPT ![c] = "get"]
            /\ UNCHANGED <<ret, last>>
       ELSE /\ pc' = [pc EXCEPT ![c] = IF cur[c].m = Sentinel THEN "join"
                                       ELSE "idle"]
            /\ ret' = [ret EXCEPT ![c] = None]
            /\ last' = [last EXCEPT ![c] = "async"]
  /\ cur' = IF cur[c].sync THEN cur ELSE [cur EXCEPT ![c] = NoCall]
  /\ UNCHANGED <<dbg, in_queue, out_queue, _target, _process, subs, to_count,
                 wstate, eng, nput, executed, released, ncalls, nemits,
                 consec>>
  /\ UNCHANGED loopVars

\* line 45: return self.out_queue.get(True).
safe_call_get(c) ==
  /\ pc[c] = "get"
  /\ out_queue # <<>>
  /\ ret' = [ret EXCEPT ![c] = Head(out_queue)]
  /\ out_queue' = Tail(out_queue)
  /\ last' = [last EXCEPT ![c] = "sync"]
  /\ pc' = [pc EXCEPT ![c] = "idle"]
  /\ cur' = [cur EXCEPT ![c] = NoCall]
  /\ UNCHANGED <<dbg, in_queue, events, _target, _process, subs, to_count,
                 wstate, eng, nput, executed, released, ncalls, nemits,
                 consec>>
  /\ UNCHANGED loopVars

\* Thread.is_alive() is false: run has returned or was left by an exception.
ThreadEnded == wstate \in {"TERMINATED", "CRASHED"}

\* line 52: self.join().
safe_exit_join(c) ==
  /\ pc[c] = "join"
  /\ ThreadEnded
  /\ pc' = [pc EXCEPT ![c] = "exited"]
  /\ UNCHANGED <<dbg, in_queue, out_queue, events, _target, _process, subs,
                 to_count, wstate, cur, eng, nput, executed, released, ret,
                 last, ncalls, nemits, consec>>
  /\ UNCHANGED loopVars

(* ------------------------------ the worker ----------------------------- *)
\* A loop that releases the engine and goes on waiting for events.
Looping_released == wstate \in {"RUNNING", "TERMINATED"}

\* line 191, while True: the loop is left only by a break or an exception.
Looping == wstate = "RUNNING"

\* Queue.get as a stack would do it: the newest item.
QueueGet_lifo(q) == [item |-> q[Len(q)], rest |-> SubSeq(q, 1, Len(q) - 1)]

\* Queue.get that leaves the item on the queue.
QueueGet_peek(q) == [item |-> Head(q), rest |-> q]

\* Queue.get(False) on a non-empty queue: the oldest item and what is left.
QueueGet(q) == [item |-> Head(q), rest |-> Tail(q)]

\* An exception of the operation that leaves run.
AfterException_fatal == "CRASHED"

\* lines 214-215: the exception is logged and the loop goes on.
AfterException == "RUNNING"

\* A counter of consecutive timeouts: any event starts it again.
AfterEvent_reset(n) == 0

\* lines 193-219 do not assign to_count: handling an event leaves it as is.
AfterEvent(n) == n

\* The barrier one timeout early.
Barrier_early(n) == n >= Ceiling

\* line 222: to_count > 172800.
Barrier(n) == n > Ceiling

Drain_all(q, b) == <<>>

\* GetNextEventForBroadcaster(b, event) until it returns false: every event
\* of broadcaster b leaves the listener's queue, the others stay in order.
Drain(q, b) == SelectSeq(q, LAMBDA e : e # b)

AfterInterrupt_skip(q) == Drain(Tail(q), INT)

\* line 203, event_matches(self.interrupter, skip=False): WaitForEvent took
\* the one event and the other events of the interrupter stay queued.
AfterInterrupt(q) == Tail(q)

\* lines 203-215: WaitForEvent returned an event of the interrupter.
run_interrupt ==
  /\ Looping
  /\ events # <<>>
  /\ Head(events) = INT
  /\ events' = AfterInterrupt(events)
  /\ to_count' = AfterEvent(to_count)
  /\ consec' = 0
  /\ IF in_queue = <<>>
       THEN \* except Empty
            UNCHANGED <<in_queue, out_queue, wstate, executed, cacheVars>>
       ELSE LET g == QueueGet(in_queue)
                e == g.item
            IN /\ in_queue' = g.rest
               /\ IF e.m = Sentinel
                    THEN /\ wstate' = "TERMINATING"
                         /\ executed' = Append(executed,
                                           [n |-> e.n, out |-> "sentinel"])
                         /\ UNCHANGED <<out_queue, cacheVars>>
                    ELSE \E x \in BOOLEAN :
                           LET r == Call(e, Pack, x) IN
                           /\ Unpack(r.s)
                           /\ executed' = Append(executed,
                                  [n |-> e.n,
                                   out |-> IF r.raised THEN "raised"
                                           ELSE "returned"])
                           /\ out_queue' = IF r.raised THEN out_queue
                                           ELSE IF e.sync
                                             THEN Append(out_queue, r.val)
                                             ELSE out_queue
                           /\ wstate' = IF r.raised THEN AfterException
                                        ELSE "RUNNING"
  /\ refreshed' = <<>>
  /\ UNCHANGED <<dbg, pc, cur, nput, released, ret, last, ncalls, nemits,
                 arg, out>>

TargetScope_all == "!all"

\* line 217: update_buffers(buf='breakpoints').
TargetScope == "breakpoints"

\* line 219: update_buffers(buf='!all').
ProcessScope == "!all"

\* lines 216-219: WaitForEvent returned an event of another broadcaster b.
\* self._target.broadcaster and self._process.broadcaster raise when the
\* handle is None, and update_buffers may raise; none of it is in a try.
run_notification ==
  /\ Looping
  /\ events # <<>>
  /\ Head(events) # INT
  /\ to_count' = AfterEvent(to_count)
  /\ consec' = 0
  /\ LET b == Head(events)
         rest == Tail(events)
         Refresh(buf) ==
           /\ events' = Drain(rest, b)
           /\ refreshed' = <<buffers_call(TRUE, buf)>>
           /\ \E fails \in BOOLEAN :
                LET u == update_buffers(Pack, fails) IN
                /\ Unpack(u.s)
                /\ wstate' = IF u.raised THEN "CRASHED" ELSE "RUNNING"
         Skip(w) ==
           /\ events' = rest
           /\ refreshed' = <<>>
           /\ wstate' = w
           /\ UNCHANGED cacheVars
     IN IF _target = None THEN Skip("CRASHED")
        ELSE IF b = TB(_target) THEN Refresh(TargetScope)
        ELSE IF _process = None THEN Skip("CRASHED")
        ELSE IF b = PB(_process) THEN Refresh(ProcessScope)
        ELSE Skip("RUNNING")
  /\ UNCHANGED <<dbg, in_queue, out_queue, pc, cur, nput, executed, released,
                 ret, last, ncalls, nemits, arg, out>>

\* lines 220-224: WaitForEvent timed out.
run_timeout ==
  /\ Looping
  /\ events = <<>>
  /\ to_count' = to_count + 1
  /\ consec' = consec + 1
  /\ wstate' = IF Barrier(to_count + 1) THEN "TERMINATING" ELSE "RUNNING"
  /\ refreshed' = <<>>
  /\ UNCHANGED <<dbg, in_queue, out_queue, events, cacheVars, pc, cur, nput,
                 executed, released, ret, last, ncalls, nemits, arg, out>>

\* lines 225-227, after either break: dbg.Terminate(); self.dbg = None.
run_terminate ==
  /\ wstate = "TERMINATING"
  /\ released' = released + 1
  /\ dbg' = None
  /\ wstate' = "TERMINATED"
  /\ UNCHANGED <<in_queue, out_queue, events, cacheVars, to_count, pc, cur,
                 nput, executed, ret, last, ncalls, nemits, consec>>
  /\ UNCHANGED loopVars

(* ------------------------------ the engine ----------------------------- *)
\* A valid target (breakpoint changed) or process (state changed) the
\* listener was added to broadcasts an event.
Broadcasting(b) ==
  \/ b[1] = "T" /\ b[2] \in eng.valid
  \/ b[1] = "P" /\ \E t \in eng.valid : eng.tproc[t] = b[2]

engine_notify ==
  /\ dbg # None
  /\ nemits < MaxEmits
  /\ \E b \in subs :
       /\ Broadcasting(b)
       /\ events' = Append(events, b)
  /\ nemits' = nemits + 1
  /\ UNCHANGED <<dbg, in_queue, out_queue, cacheVars, to_count, wstate, pc,
                 cur, nput, executed, released, ret, last, ncalls, consec>>
  /\ UNCHANGED loopVars

(* ---------------------------- specification --------------------------- *)
Constructed ==
  /\ dbg = Debugger
  /\ in_queue = <<>>
  /\ out_queue = <<>>
  /\ events = <<>>
  /\ _target = None
  /\ _process = None
  /\ subs = {}
  /\ to_count = 0
  /\ wstate = "RUNNING"
  /\ pc = [c \in Callers |-> "idle"]
  /\ cur = [c \in Callers |-> NoCall]
  /\ eng = [valid |-> {}, selected |-> None,
            tproc |-> [t \in 1..MaxCalls |-> None],
            nextT |-> 1, nextP |-> 1]
  /\ nput = 0
  /\ executed = <<>>
  /\ released = 0
  /\ ret = [c \in Callers |-> None]
  /\ last = [c \in Callers |-> "never"]
  /\ ncalls = 0
  /\ nemits = 0
  /\ consec = 0
  /\ refreshed = <<>>

Init ==
  /\ Constructed
  /\ arg = <<>>
  /\ out = <<>>

Next ==
  \/ \E c \in Callers : safe_call(c)
  \/ \E c \in Callers : safe_exit(c)
  \/ \E c \in Callers : safe_call_put(c)
  \/ \E c \in Callers : safe_call_broadcast(c)
  \/ \E c \in Callers : safe_call_get(c)
  \/ \E c \in Callers : safe_exit_join(c)
  \/ run_interrupt
  \/ run_notification
  \/ run_timeout
  \/ run_terminate
  \/ engine_notify

Spec == Init /\ [][Next]_vars

(* ------------------------------ properties ---------------------------- *)
\* put gives the envelopes the numbers 1, 2, ... in the order they go on
\* in_queue; executed lists what the loop took, in the order it took it.

\* C1: the loop takes the envelopes in exactly the order in which they were
\* put on in_queue: the i-th envelope taken is the i-th envelope put,
\* whatever notifications and timeouts came in between.
C1_Fifo == \A i \in 1..Len(executed) : executed[i].n = i

\* Two envelopes were taken while a third party (a notification, a timeout)
\* came in between the submissions.
C1_Witness ==
  /\ Len(executed) = 2
  /\ nemits > 0
  /\ to_count > 0

\* The value the operation of envelope e returns.
OwnValue(e) == IF e.m = "ok" THEN e.n ELSE None

\* C2: a synchronous safe_call returns the value of its own operation, also
\* when another caller's synchronous call is outstanding.
C2_OwnValue ==
  [][\A c \in Callers :
       (pc[c] = "get" /\ pc'[c] # "get") => ret'[c] = OwnValue(cur[c])]_vars

\* The loop takes an envelope whose operation raises and whose caller waits.
RaisedSync ==
  /\ Len(executed') = Len(executed) + 1
  /\ executed'[Len(executed')].out = "raised"
  /\ Head(in_queue).sync

\* C3: when the operation of a synchronous envelope raises, the loop posts
\* None on out_queue, which unblocks the caller.
C3_NonePosted == [][RaisedSync => out_queue' = Append(out_queue, None)]_vars

\* The loop takes an envelope whose operation raises.
Raised ==
  /\ Len(executed') = Len(executed) + 1
  /\ executed'[Len(executed')].out = "raised"

\* The interrupts pending on the listener.
Interrupts(q) == Len(SelectSeq(q, LAMBDA b : b = INT))

Iteration == run_interrupt \/ run_notification \/ run_timeout

\* C5: the loop leaves RUNNING only by taking the Sentinel or by the Idle
\* Counter exceeding the ceiling, and so never without going on to release
\* the engine handle.
C5_OnlySentinelOrBarrier ==
  [][(wstate = "RUNNING" /\ wstate' # "RUNNING") =>
       /\ wstate' = "TERMINATING"
       /\ \/ /\ run_interrupt
             /\ in_queue # <<>>
             /\ Head(in_queue).m = Sentinel
          \/ /\ run_timeout
             /\ to_count' > Ceiling]_vars

\* C6: once self.dbg is None it stays None, and a safe_call entered then
\* returns None at once: the step that enters it puts nothing on in_queue
\* and broadcasts no interrupt, and a caller that was in no call never gets
\* to the put, the broadcast or the wait on out_queue.
C6_RefusedAfterRelease ==
  [][dbg = None =>
       /\ dbg' = None
       /\ \A c \in Callers :
            pc[c] = "idle" => pc'[c] \in {"idle", "join"}
       /\ ncalls' # ncalls =>
            /\ UNCHANGED <<in_queue, out_queue, events, nput>>
            /\ \E c \in Callers :
                 /\ pc[c] = "idle"
                 /\ ret'[c] = None
                 /\ last'[c] = "refused"]_vars

\* A call was refused after the worker released the engine handle.
C6_Witness ==
  /\ dbg = None
  /\ \E c \in Callers : last[c] = "refused" /\ pc[c] = "idle"

\* C7: when safe_exit returns, the worker has reached TERMINATED and the
\* engine handle has been released.
C7_ExitedMeansReleased ==
  \A c \in Callers :
    pc[c] = "exited" => (wstate = "TERMINATED" /\ dbg = None)

\* C8: whichever way the loop is left by a break, Terminate is called once
\* and no more, and from then on the worker runs nothing: no operation, no
\* refresh, no accessor of the handle cache.
C8_ReleasedOnce ==
  [][/\ released' <= 1
     /\ wstate' = "TERMINATED" => (released' = 1 /\ dbg' = None)
     /\ released >= 1 =>
          /\ ~Iteration
          /\ UNCHANGED <<executed, cacheVars, wstate, released>>]_vars

\* The barrier ended the loop while a Sentinel was waiting on in_queue.
C8_Witness ==
  /\ wstate = "TERMINATED"
  /\ released = 1
  /\ to_count > Ceiling
  /\ \E i \in 1..Len(in_queue) : in_queue[i].m = Sentinel

\* C9 as stated: the counter changes by timeouts alone, one at a time; the
\* loop is RUNNING while the counter is at most the ceiling; and once the
\* counter is at the ceiling the next iteration, whatever it is, ends the
\* loop.
C9_NextIteration ==
  [][/\ to_count' # to_count => (run_timeout /\ to_count' = to_count + 1)
     /\ (run_timeout /\ to_count < Ceiling) => wstate' = "RUNNING"
     /\ (Iteration /\ to_count = Ceiling) => wstate' # "RUNNING"]_vars

\* C9, amended: the counter changes by timeouts alone, one at a time; a
\* timeout before the ceiling is reached leaves the loop RUNNING, and the
\* timeout that finds the counter at the ceiling ends it.
C9_NextTimeout ==
  [][/\ to_count' # to_count => (run_timeout /\ to_count' = to_count + 1)
     /\ (run_timeout /\ to_count < Ceiling) => wstate' = "RUNNING"
     /\ (run_timeout /\ to_count = Ceiling) => wstate' = "TERMINATING"]_vars

\* The counter is at the ceiling and the loop, still RUNNING, has handled an
\* event since.
C9_Witness ==
  /\ to_count = Ceiling
  /\ consec = 0
  /\ wstate = "RUNNING"

\* C10 as stated: the barrier ends the loop only when the timeouts since the
\* last handled event exceed the ceiling.
C10_Consecutive ==
  [][(run_timeout /\ wstate' = "TERMINATING") => consec' > Ceiling]_vars

\* C10, amended: handling an interrupt or a notification leaves the counter
\* as it is, and a timeout ends the loop exactly when the timeouts of the
\* loop's whole lifetime exceed the ceiling, consecutive or not.
C10_Lifetime ==
  [][/\ (run_interrupt \/ run_notification) => to_count' = to_count
     /\ run_timeout =>
          (wstate' = "TERMINATING" <=> to_count' = Ceiling + 1)]_vars

\* The barrier ended a loop that had executed a command between timeouts.
C10_Witness ==
  /\ wstate = "TERMINATING"
  /\ to_count > Ceiling
  /\ consec < to_count
  /\ executed # <<>>

(***************************************************************************)
(* The breakpoint toggle, lines 156-177, run on its own.                   *)
(***************************************************************************)

MaxBuf == 2
MaxLine == 2
MaxId == 2

\* line 157: key = (bufnr, line).
Keys == (1..MaxBuf) \X (1..MaxLine)

\* The identifiers registered at one key: one or more, in registration order.
IdLists == UNION {[1..n -> 1..MaxId] : n \in 1..2}

\* self.buffers.bp_list: a dict from keys to the breakpoints placed there.
BpLists == UNION {[K -> IdLists] : K \in {{}} \cup {{k} : k \in Keys}}

\* self.vimx.get_buffer_name(bufnr), line 162.
get_buffer_name(bufnr) == "/src/" \o ToString(bufnr) \o ".c"

join_first(sep, xs) == IF xs = <<>> THEN "" ELSE xs[1]

\* sep.join(xs), line 160.
RECURSIVE join(_, _)
join(sep, xs) ==
  IF xs = <<>> THEN ""
  ELSE IF Len(xs) = 1 THEN xs[1]
  ELSE xs[1] \o sep \o join(sep, Tail(xs))

\* line 173: cmd = "%s %s" % (command, args), handed to HandleCommand.
get_command_result(command, args) == <<command \o " " \o args>>

\* lines 179-185: exec_command runs get_command_result and logs its output.
exec_command(command, args) == get_command_result(command, args)

\* lines 167-169.
do_breakpoint(args) == exec_command("breakpoint", args)

\* lines 156-165.  The value is the command lines the interpreter was handed.
do_breakswitch(bp_list, bufnr, line) ==
  LET key == <<bufnr, line>> IN
  IF key \in DOMAIN bp_list
    THEN LET bps == bp_list[key]
             ids == [i \in 1..Len(bps) |-> ToString(bps[i])]
         IN do_breakpoint("delete " \o join(" ", ids))
    ELSE LET path == get_buffer_name(bufnr)
         IN do_breakpoint("set -f " \o path \o " -l " \o ToString(line))

BreakInit ==
  /\ Constructed
  /\ arg \in [bufnr : 1..MaxBuf, line : 1..MaxLine, bp_list : BpLists]
  /\ out = <<>>

breakswitch ==
  /\ out = <<>>
  /\ out' = do_breakswitch(arg.bp_list, arg.bufnr, arg.line)
  /\ UNCHANGED <<dbg, in_queue, out_queue, events, cacheVars, to_count, wstate,
                 pc, cur, nput, executed, released, ret, last, ncalls, nemits,
                 consec, refreshed, arg>>

BreakNext == breakswitch

BreakSpec == BreakInit /\ [][BreakNext]_vars

\* " id1 id2 ... idn": each identifier behind one space.
RECURSIVE SpaceIds(_)
SpaceIds(bps) ==
  IF bps = <<>> THEN "" ELSE " " \o ToString(bps[1]) \o SpaceIds(Tail(bps))

\* C11: whatever the buffer number and line, the toggle hands the breakpoint
\* handler exactly one command: "breakpoint delete id1 ... idn" with every
\* identifier registered at (buffer, line) when the key is in the index, and
\* "breakpoint set -f <path of buffer> -l <line>" when it is not.
C11_OneCommand ==
  out # <<>> =>
    /\ Len(out) = 1
    /\ LET key == <<arg.bufnr, arg.line>> IN
       IF key \in DOMAIN arg.bp_list
         THEN out[1] = "breakpoint delete" \o SpaceIds(arg.bp_list[key])
         ELSE out[1] = "breakpoint set -f " \o get_buffer_name(arg.bufnr)
                         \o " -l " \o ToString(arg.line)

\* The toggle has deleted two breakpoints placed on one line.
C11_Witness ==
  /\ out = <<"breakpoint delete 1 2">>
  /\ <<arg.bufnr, arg.line>> \in DOMAIN arg.bp_list

(***************************************************************************)
(* Completion, lines 54-69, run on its own.  A string is the sequence of   *)
(* its characters.                                                         *)
(***************************************************************************)

MaxLen == 2
MaxCands == 3

Letters == {"b", "x"}

Strings == UNION {[1..n -> Letters] : n \in 0..MaxLen}

\* What HandleCompletion leaves in the SBStringList, line 57.
CandLists == UNION {[1..n -> Strings] : n \in 0..MaxCands}

\* HandleCompletion's value for the history repeat character, line 59.
RepeatHistory == 0 - 2

\* HandleCompletion's value, line 57: the number of matches or RepeatHistory.
Nums == {RepeatHistory} \cup (0..MaxCands)

\* str.startswith, line 65.
startswith(str, prefix) ==
  /\ Len(prefix) <= Len(str)
  /\ SubSeq(str, 1, Len(prefix)) = prefix

\* return value / exception of one call.
Return(v) == [raised |-> "", val |-> v]
Raise(e) == [raised |-> e, val |-> <<>>]

\* lines 54-69.  num is HandleCompletion's value and strings the list it
\* filled in; cands[1] and cands[-1] of the code are the second and the last.
complete_command(a, num, strings) ==
  IF Len(strings) > 0
    THEN LET cands == strings IN
         IF cands[1] = <<>> /\ a # <<>>
           THEN IF Len(cands) < 2
                  THEN Raise("IndexError")
                  ELSE IF \/ ~startswith(cands[2], a)
                          \/ ~startswith(cands[Len(cands)], a)
                         THEN Return(<<>>)
                         ELSE Return(Tail(cands))
           ELSE Return(Tail(cands))
    ELSE Return(<<>>)

CompleteInit ==
  /\ Constructed
  /\ arg \in [arg : Strings, num : Nums, strings : CandLists]
  /\ out = <<>>

complete ==
  /\ out = <<>>
  /\ out' = <<complete_command(arg.arg, arg.num, arg.strings)>>
  /\ UNCHANGED <<dbg, in_queue, out_queue, events, cacheVars, to_count, wstate,
                 pc, cur, nput, executed, released, ret, last, ncalls, nemits,
                 consec, refreshed, arg>>

CompleteNext == complete

CompleteSpec == CompleteInit /\ [][CompleteNext]_vars

\* C12: for a non-empty partial text and a non-empty candidate list whose
\* first entry is the empty string, of any length from one up,
\* complete_command returns a list and does not fail: the empty list when
\* the second or the last candidate does not start with the partial text,
\* and every candidate but the first otherwise.
C12_GuardedList ==
  (/\ out # <<>>
   /\ arg.arg # <<>>
   /\ arg.strings # <<>>
   /\ arg.strings[1] = <<>>) =>
    LET cands == arg.strings
        n == Len(cands)
        mismatch == \E i \in {2, n} :
                      i \in 2..n /\ ~startswith(cands[i], arg.arg)
    IN /\ out[1].raised = ""
       /\ out[1].val = IF mismatch THEN <<>> ELSE Tail(cands)

\* C16: when HandleCompletion signals the history repeat character,
\* complete_command returns no candidate, whatever the list holds.
C16_RepeatHistoryEmpty ==
  (out # <<>> /\ arg.num = RepeatHistory) =>
    /\ out[1].raised = ""
    /\ out[1].val = <<>>

(***************************************************************************)
(* The handle cache and the handlers that use it, lines 90-150, run one    *)
(* after another as the worker runs them.                                  *)
(***************************************************************************)

\* What a handler or accessor returned: r its value, success and log as in
\* do_process_la.
Outcome(op, r, success, log) ==
  [op |-> op, r |-> r, success |-> success, log |-> log]

\* What it was entered with: process is the local of line 128.
Entered(op, process) == [op |-> op, process |-> process]

HandlerInit ==
  /\ Constructed
  /\ arg = Entered("", None)
  /\ out = Outcome("", None, TRUE, <<>>)

parked == <<dbg, in_queue, out_queue, events, to_count, wstate, pc, cur, nput,
            executed, released, ret, last, ncalls, nemits, consec, refreshed>>

\* get_target() called by a handler.
h_get_target ==
  /\ LET g == get_target(Pack) IN
     /\ Unpack(g.s)
     /\ out' = Outcome("get_target", g.r, TRUE, <<>>)
  /\ arg' = Entered("get_target", None)
  /\ UNCHANGED parked

\* get_process() called by a handler.
h_get_process ==
  /\ LET g == get_process(Pack) IN
     /\ Unpack(g.s)
     /\ out' = Outcome("get_process", g.r, TRUE, <<>>)
  /\ arg' = Entered("get_process", None)
  /\ UNCHANGED parked

\* do_target("create ...").
h_do_target ==
  /\ \E refuse \in BOOLEAN :
       /\ refuse \/ eng.nextT <= MaxCalls
       /\ LET r == do_target(Pack, refuse) IN
          /\ Unpack(r.s)
          /\ out' = Outcome("do_target", r.val, TRUE, <<>>)
  /\ arg' = Entered("do_target", None)
  /\ UNCHANGED parked

\* do_target("select <t>").
h_do_target_s ==
  /\ \E t \in 1..MaxCalls :
       LET r == do_target_s(Pack, t) IN
       /\ Unpack(r.s)
       /\ out' = Outcome("do_target_s", r.val, TRUE, <<>>)
  /\ arg' = Entered("do_target_s", None)
  /\ UNCHANGED parked

\* do_target("delete").
h_do_target_d ==
  /\ \E fails \in BOOLEAN :
       LET r == do_target_d(Pack, fails) IN
       /\ Unpack(r.s)
       /\ out' = Outcome("do_target_d", r.val, ~r.raised, <<>>)
  /\ arg' = Entered("do_target_d", None)
  /\ UNCHANGED parked

\* do_process("launch").
h_do_process_la ==
  /\ \E refuse \in BOOLEAN :
       /\ refuse \/ eng.nextP <= MaxCalls
       /\ LET r == do_process_la(Pack, refuse) IN
          /\ Unpack(r.s)
          /\ out' = Outcome("do_process_la", r.val, r.success, r.log)
  /\ arg' = Entered("do_process_la", get_process(Pack).r)
  /\ UNCHANGED parked

HandlerNext ==
  \/ h_get_target
  \/ h_get_process
  \/ h_do_target
  \/ h_do_target_s
  \/ h_do_target_d
  \/ h_do_process_la

HandlerSpec == HandlerInit /\ [][HandlerNext]_vars

\* The processes the engine holds.
Live(S) == {p \in 1..(MaxCalls + 1) : ProcessValid(S, p)}

\* The process broadcasters the listener is subscribed to.
ProcessSubs(b) == {p \in 1..(MaxCalls + 1) : PB(p) \in b}

\* C13 as stated: after a launch the engine refused, every process that was
\* live before the call is destroyed, the cached process handle and the
\* state-changed subscriptions are those of before the call, and the message
\* logged is the engine's failure text and nothing else.
C13_Verbatim ==
  [][(h_do_process_la /\ ~out'.success) =>
       /\ Live(Pack) \cap Live(Pack') = {}
       /\ _process' = _process
       /\ ProcessSubs(subs') = ProcessSubs(subs)
       /\ out'.log = <<ProcessLaunch(eng', TRUE).result>>]_vars

\* C13: after a launch the engine refused, the process get_process returned
\* at the start of the call (the cached process if valid, otherwise the
\* cached or selected target's), if any, is destroyed; the only process
\* handle newly cached or subscribed is that destroyed one, so the cache
\* holds no live process; and the message logged is "Error during launch: "
\* followed by the engine's failure text.
C13_FailedLaunch ==
  [][(h_do_process_la /\ ~out'.success) =>
       LET process == get_process(Pack).r IN
       /\ process # None => process \notin Live(Pack')
       /\ _process' \in {_process, process}
       /\ ProcessSubs(subs') \subseteq ProcessSubs(subs) \cup {process}
       /\ ~ProcessValid(Pack', _process')
       /\ out'.log = <<"Error during launch: "
                        \o ProcessLaunch(eng', TRUE).result>>]_vars

\* A launch was refused with a process live at the call.
C13_Witness ==
  /\ out.op = "do_process_la"
  /\ ~out.success
  /\ arg.process # None
  /\ out.log = <<"Error during launch: error: launch failed">>

\* C17: whatever targets were created, selected and deleted and whatever
\* was called before, get_target returns None or a handle that is valid at
\* that moment and whose breakpoint-changed events the listener is
\* subscribed to, and None exactly when neither the cached handle nor the
\* engine's selected target is valid; get_process returns None or a valid
\* process handle whose state-changed events the listener is subscribed to.
C17_ValidSubscribed ==
  [][/\ h_get_target =>
          LET r == out'.r IN
          /\ r = None \/ (TargetValid(Pack', r) /\ TB(r) \in subs')
          /\ r = None <=> (/\ ~TargetValid(Pack, _target)
                           /\ ~TargetValid(Pack, eng.selected))
     /\ h_get_process =>
          LET r == out'.r IN
          r = None \/ (ProcessValid(Pack', r) /\ PB(r) \in subs')]_vars

\* get_target has returned the selected target after a target it had
\* cached and subscribed to was deleted.
C17_Witness ==
  /\ out.op = "get_target"
  /\ out.r # None
  /\ \E t \in 1..MaxCalls : TB(t) \in subs /\ t \notin eng.valid

(***************************************************************************)
(* The envelopes and the interrupts of the dispatch loop (Spec).           *)
(***************************************************************************)

\* The numbers of the envelopes in a sequence of envelopes or of records of
\* executed.
Numbers(q) == {q[i].n : i \in DOMAIN q}

\* The callers between the put of line 40 and the broadcast of line 42.
Broadcasting_callers == {c \in Callers : pc[c] = "bcast"}

\* C14 as stated, in its finite form: no envelope is taken twice, and none
\* is left on in_queue for good, so a loop that has ended has left none.
C14_AllTaken ==
  /\ \A i, j \in DOMAIN executed : executed[i].n = executed[j].n => i = j
  /\ ThreadEnded => in_queue = <<>>

\* C14: every envelope put is on in_queue or has been taken, never both and
\* never twice; while the loop runs each envelope on in_queue has its
\* interrupt pending or about to be broadcast, and the iteration that
\* observes an interrupt takes the oldest envelope; once the loop has ended
\* (a Sentinel ahead of the envelope, the idle barrier, an exception of a
\* notification iteration) the envelopes still on in_queue are never taken.
C14_AtMostOnce ==
  /\ [](/\ Numbers(executed) \cup Numbers(in_queue) = 1..nput
        /\ Numbers(executed) \cap Numbers(in_queue) = {}
        /\ Cardinality(Numbers(executed)) = Len(executed)
        /\ Cardinality(Numbers(in_queue)) = Len(in_queue)
        /\ (Looping /\ in_queue # <<>>) =>
             Interrupts(events) + Cardinality(Broadcasting_callers) > 0)
  /\ [][/\ (run_interrupt /\ in_queue # <<>>) =>
             /\ Len(executed') = Len(executed) + 1
             /\ executed'[Len(executed')].n = Head(in_queue).n
        /\ ~Looping =>
             /\ executed' = executed
             /\ SubSeq(in_queue', 1, Len(in_queue)) = in_queue]_vars

\* The loop took a Sentinel and ended with the envelope another caller put
\* behind it still on in_queue, its interrupt pending.
C14_Witness ==
  /\ wstate = "TERMINATED"
  /\ Len(executed) = 1
  /\ executed[1].out = "sentinel"
  /\ in_queue # <<>>
  /\ Interrupts(events) > 0

\* C15: an iteration that wakes on an event of the cached target's
\* broadcaster makes exactly one refresh call, for the 'breakpoints' buffer
\* only; one that wakes on an event of the cached process's broadcaster
\* makes exactly one, a full refresh that follows the program counter; one
\* that wakes on an interrupt makes none of its own.
C15_ScopedRefresh ==
  [][(Iteration /\ events # <<>>) =>
       LET b == Head(events) IN
       /\ b = INT => refreshed' = <<>>
       /\ (_target # None /\ b = TB(_target)) =>
            refreshed' = <<[fn |-> "update_buffer", buf |-> "breakpoints",
                            jump2pc |-> FALSE, excl |-> {}]>>
       /\ (_process # None /\ b = PB(_process)) =>
            refreshed' = <<[fn |-> "update", buf |-> "", jump2pc |-> TRUE,
                            excl |-> {}]>>]_vars

\* The loop has handled a state change of the cached process and goes on.
C15_Witness ==
  /\ refreshed # <<>>
  /\ refreshed[1].fn = "update"
  /\ refreshed[1].jump2pc
  /\ wstate = "RUNNING"

\* C18: the interrupts pending on the listener are never more than the
\* envelopes on in_queue: they are as many, less one for each caller between
\* its put and its broadcast.  So an observed interrupt finds in_queue
\* non-empty and, with no caller in between, every envelope has its
\* interrupt.
C18_InterruptPerEnvelope ==
  /\ Interrupts(events) <= Len(in_queue)
  /\ Len(in_queue) = Interrupts(events) + Cardinality(Broadcasting_callers)
  /\ Broadcasting_callers = {} => Interrupts(events) = Len(in_queue)
  /\ (events # <<>> /\ Head(events) = INT) => in_queue # <<>>

\* The loop has taken one envelope on its interrupt; a second envelope is
\* queued and its caller has not broadcast yet, so no interrupt is pending.
C18_Witness ==
  /\ Len(in_queue) = 1
  /\ Interrupts(events) = 0
  /\ Broadcasting_callers # {}
  /\ Len(executed) = 1

\* C19 as stated: once the worker has released the engine handle no envelope
\* is added to in_queue, and once it has terminated no caller waits on an
\* empty out_queue.
C19_NoLatePut ==
  /\ [][dbg = None => Len(in_queue') <= Len(in_queue)]_vars
  /\ [](wstate = "TERMINATED" =>
          \A c \in Callers : pc[c] = "get" => out_queue # <<>>)

\* C20: an iteration that handles a target or process notification and an
\* iteration that times out leave in_queue and out_queue as they are and
\* the interrupts pending as many; what a notification iteration takes off
\* the listener is the event it woke on and events of that same broadcaster.
C20_WakeupsKept ==
  [][(run_notification \/ run_timeout) =>
       /\ UNCHANGED <<in_queue, out_queue>>
       /\ Interrupts(events') = Interrupts(events)
       /\ events # <<>> =>
            Drain(events', Head(events)) = Drain(events, Head(events))]_vars

\* A notification was handled while an envelope waited with its interrupt
\* behind the notification.
C20_Witness ==
  /\ refreshed # <<>>
  /\ in_queue # <<>>
  /\ Interrupts(events) > 0
  /\ wstate = "RUNNING"

====
